---------------------------- MODULE Spec2Model ----------------------------
(***************************************************************************)
(* Page-addressing tools of _process/tools: split_pdf.py, merge_pages.py   *)
(* and extract_first_pages.py, modelled over a small file system.          *)
(*                                                                         *)
(* A file name is a sequence of one-character strings, so that formatting  *)
(* ({:04d}), Path.stem/Path.suffix, glob matching and the range regex are  *)
(* computed character by character.  A path is <<directory, name>>.  A     *)
(* document is the sequence of its pages; a page is <<origin, ordinal>>,   *)
(* an opaque handle that stands for the page's content.                    *)
(***************************************************************************)
EXTENDS Integers, Sequences, FiniteSets, TLC

VARIABLES
    files,   \* path -> document, for every file that exists
    dirs,    \* the directories that exist
    call     \* the last invocation: its arguments and its outcome

vars == <<files, dirs, call>>

---------------------------------------------------------------------------
(* Bounds of the model *)

\* Largest page count of a source document.
MaxPages == 2
\* Largest ordinal of a requested range (start and end range over 0..MaxOrd).
MaxOrd == 3
\* Longest range string handed to parse_range.
MaxLen == 4

---------------------------------------------------------------------------
(* Characters, formatting and parsing *)

DigitChars == <<"0", "1", "2", "3", "4", "5", "6", "7", "8", "9">>

IsDigit(c) == \E i \in 1..10 : DigitChars[i] = c

DigitVal(c) == (CHOOSE i \in 1..10 : DigitChars[i] = c) - 1

\* Code point order of the characters used in names (Python compares str by it).
CodePoint(c) ==
    CASE c = "*" -> 42 [] c = "-" -> 45 [] c = "." -> 46
      [] IsDigit(c) -> 48 + DigitVal(c)
      [] c = "?" -> 63 [] c = "[" -> 91 [] c = "]" -> 93
      [] c = "a" -> 97 [] c = "d" -> 100 [] c = "e" -> 101 [] c = "f" -> 102
      [] c = "g" -> 103 [] c = "m" -> 109 [] c = "p" -> 112
      [] OTHER -> 0

RECURSIVE Decimal(_)
\* str(n) for n >= 0.
Decimal(n) ==
    IF n < 10 THEN <<DigitChars[n + 1]>>
    ELSE Append(Decimal(n \div 10), DigitChars[(n % 10) + 1])

\* The minimum field width of the format spec 04d.
PadWidth == 4

RECURSIVE ZeroPad(_, _)
ZeroPad(s, w) == IF Len(s) >= w THEN s ELSE ZeroPad(<<"0">> \o s, w)

\* f"{n:04d}": zero-padded to at least four digits, never truncated.
Format04d(n) == ZeroPad(Decimal(n), PadWidth)

RECURSIVE IntOf(_)
\* int(s) for a string of decimal digits.
IntOf(s) ==
    IF s = <<>> THEN 0
    ELSE 10 * IntOf(SubSeq(s, 1, Len(s) - 1)) + DigitVal(s[Len(s)])

PageInfix == <<"-", "p", "a", "g", "e", "-">>
PdfSuffix == <<".", "p", "d", "f">>

\* str.lower() on the characters of the model's names.
LowerChar(c) ==
    CASE c = "P" -> "p" [] c = "D" -> "d" [] c = "F" -> "f" [] c = "A" -> "a"
      [] OTHER -> c

Lower(s) == [i \in 1..Len(s) |-> LowerChar(s[i])]

\* Position of the last "." of a name, 0 when there is none.
LastDot(name) ==
    IF \E i \in 1..Len(name) : name[i] = "."
    THEN CHOOSE i \in 1..Len(name) :
            name[i] = "." /\ \A j \in (i + 1)..Len(name) : name[j] # "."
    ELSE 0

\* pathlib's PurePath.suffix: the last dot onward, empty when the name has no
\* dot, starts with its only dot, or ends with a dot.
Suffix(name) ==
    LET i == LastDot(name)
    IN  IF i > 1 /\ i < Len(name) THEN SubSeq(name, i, Len(name)) ELSE <<>>

\* pathlib's PurePath.stem: the name without its suffix.
Stem(name) ==
    LET i == LastDot(name)
    IN  IF i > 1 /\ i < Len(name) THEN SubSeq(name, 1, i - 1) ELSE name

\* f"{stem}-page-{page_num:04d}.pdf"
PageFileName(stem, page_num) ==
    stem \o PageInfix \o Format04d(page_num) \o PdfSuffix

Minimum(S) == CHOOSE x \in S : \A y \in S : x <= y

\* For a pattern that starts with "[": the position of the "]" that closes
\* the character class, 0 when there is none (fnmatch then takes the "["
\* literally).  A "]" right after the "[" or after "[!" is a member.
ClassClose(pattern) ==
    LET j1 == IF Len(pattern) >= 2 /\ pattern[2] = "!" THEN 3 ELSE 2
        j2 == IF Len(pattern) >= j1 /\ pattern[j1] = "]" THEN j1 + 1 ELSE j1
        closing == {j \in j2..Len(pattern) : pattern[j] = "]"}
    IN  IF closing = {} THEN 0 ELSE Minimum(closing)

\* Whether character c belongs to the class with the given members: a
\* listed character, or one within a range lo-hi (by code point).
InClass(members, c) ==
    LET n == Len(members)
        IsRangeDash(k) == members[k] = "-" /\ 1 < k /\ k < n
    IN  \/ \E k \in 1..n : ~IsRangeDash(k) /\ members[k] = c
        \/ \E k \in 1..n :
              /\ IsRangeDash(k)
              /\ CodePoint(members[k - 1]) <= CodePoint(c)
              /\ CodePoint(c) <= CodePoint(members[k + 1])

RECURSIVE GlobMatch(_, _)
\* fnmatch of one path component: "*" matches any run of characters, "?" any
\* one character, "[seq]" one character of seq ("[!seq]" one not in seq),
\* every other character itself (case-sensitive, as on POSIX).
GlobMatch(pattern, name) ==
    IF pattern = <<>> THEN name = <<>>
    ELSE IF Head(pattern) = "*"
         THEN GlobMatch(Tail(pattern), name)
              \/ (name # <<>> /\ GlobMatch(pattern, Tail(name)))
    ELSE IF Head(pattern) = "[" /\ ClassClose(pattern) # 0
         THEN LET j == ClassClose(pattern)
                  negated == pattern[2] = "!"
                  members == SubSeq(pattern, IF negated THEN 3 ELSE 2, j - 1)
              IN  /\ name # <<>>
                  /\ InClass(members, Head(name)) # negated
                  /\ GlobMatch(SubSeq(pattern, j + 1, Len(pattern)),
                               Tail(name))
    ELSE /\ name # <<>>
         /\ (Head(pattern) = "?" \/ Head(pattern) = Head(name))
         /\ GlobMatch(Tail(pattern), Tail(name))

---------------------------------------------------------------------------
(* The file system *)

\* The value of an optional stem argument that is None or "": both are falsy.
NoStem == <<>>

NoPath == <<"", <<>>>>

Entries(fs, dir) == {p[2] : p \in {q \in DOMAIN fs : q[1] = dir}}

\* open(path, 'wb') followed by writer.write: creates or replaces the file.
WriteFile(fs, path, doc) ==
    [q \in (DOMAIN fs) \cup {path} |-> IF q = path THEN doc ELSE fs[q]]

\* Path.glob(pattern) on a directory: the entries that match.  The order in
\* which the generator yields them is the directory's enumeration order.
Glob(fs, dir, pattern) == {n \in Entries(fs, dir) : GlobMatch(pattern, n)}

---------------------------------------------------------------------------
(* split_pdf.py *)

\* Mutant of PageAt: every page file gets the document's first page.
PageAtZero(reader, i) == reader[1]

\* reader.pages[i], i counted from 0.
PageAt(reader, i) == reader[i + 1]

RECURSIVE SplitLoop(_, _, _, _, _, _)
\* for i in range(total_pages): write page i+1 alone, append its path.
SplitLoop(fs, reader, stem, output_dir, i, output_files) ==
    IF i >= Len(reader)
    THEN [files |-> fs, ret |-> output_files]
    ELSE LET page_num == i + 1
             output_path == <<output_dir, PageFileName(stem, page_num)>>
         IN  SplitLoop(WriteFile(fs, output_path, <<PageAt(reader, i)>>), reader,
                       stem, output_dir, i + 1,
                       Append(output_files, output_path))

split_pdf(fs, ds, input_path, output_dir) ==
    IF input_path \notin DOMAIN fs
    THEN [status |-> "FileNotFoundError", ret |-> <<>>, files |-> fs, dirs |-> ds]
    ELSE IF Lower(Suffix(input_path[2])) # PdfSuffix
    THEN [status |-> "ValueError", ret |-> <<>>, files |-> fs, dirs |-> ds]
    ELSE LET r == SplitLoop(fs, fs[input_path], Stem(input_path[2]),
                            output_dir, 0, <<>>)
         IN  [status |-> "ok", ret |-> r.ret, files |-> r.files,
              dirs |-> ds \cup {output_dir}]

\* main() of split_pdf.py: the exit status of the command.  After a normal
\* return it prints output_files[0] and output_files[-1]; on an empty list
\* that raises IndexError, which the last except clause turns into exit 1.
SplitExit(r) ==
    IF r.status # "ok" THEN 1
    ELSE IF Len(r.ret) = 0 THEN 1
    ELSE 0

---------------------------------------------------------------------------
(* merge_pages.py: get_pages_from_dir *)

PagePattern(stem_pattern, page_num) ==
    IF stem_pattern # NoStem
    THEN PageFileName(stem_pattern, page_num)
    ELSE PageFileName(<<"*">>, page_num)

\* Mutant of RangeStop: range(start, end), which leaves out the last ordinal.
RangeStopShort(end) == end

\* The exclusive stop of range(start, end + 1).
RangeStop(end) == end + 1

RECURSIVE ResolveLoop(_, _, _, _, _, _)
\* for page_num in range(start, end + 1): the outcomes of the loop from
\* page_num on.  matches[0] is whichever match the enumeration yields first.
ResolveLoop(fs, pages_dir, page_num, end, stem_pattern, page_files) ==
    IF page_num >= RangeStop(end)
    THEN {[status |-> "ok", ret |-> page_files, error |-> <<>>]}
    ELSE LET pattern == PagePattern(stem_pattern, page_num)
             matches == Glob(fs, pages_dir, pattern)
         IN  IF matches = {}
             THEN {[status |-> "FileNotFoundError", ret |-> <<>>,
                    error |-> <<"page", page_num, pattern>>]}
             ELSE UNION {ResolveLoop(fs, pages_dir, page_num + 1, end,
                                     stem_pattern,
                                     Append(page_files, <<pages_dir, first>>))
                         : first \in matches}

\* Mutant of get_pages_from_dir: the directory is not checked.
get_pages_unchecked(fs, ds, pages_dir, start, end, stem_pattern) ==
    ResolveLoop(fs, pages_dir, start, end, stem_pattern, <<>>)

\* The set of outcomes of get_pages_from_dir, one per enumeration order.
get_pages_from_dir(fs, ds, pages_dir, start, end, stem_pattern) ==
    IF pages_dir \notin ds
    THEN {[status |-> "FileNotFoundError", ret |-> <<>>,
           error |-> <<"dir", pages_dir>>]}
    ELSE ResolveLoop(fs, pages_dir, start, end, stem_pattern, <<>>)

---------------------------------------------------------------------------
(* merge_pages.py: merge_pages *)

\* Mutant of FirstPage: the last page of the input, reader.pages[-1].
LastPage(doc) == doc[Len(doc)]

\* reader.pages[0]; IndexError on a document without pages is raised by the
\* caller's guard in MergeLoop.
FirstPage(doc) == doc[1]

RECURSIVE MergeLoop(_, _, _, _)
\* for page_file in page_files, from the k-th on: the existence check, then
\* the first page of the file is added to the writer.  opened counts the
\* inputs that were opened.
MergeLoop(fs, page_files, k, writer) ==
    IF k > Len(page_files)
    THEN [status |-> "ok", pages |-> writer, error |-> <<>>, opened |-> k - 1]
    ELSE LET page_path == page_files[k]
         IN  IF page_path \notin DOMAIN fs
             THEN [status |-> "FileNotFoundError", pages |-> writer,
                   error |-> <<"file", page_path>>, opened |-> k - 1]
             ELSE IF Len(fs[page_path]) = 0
             THEN [status |-> "IndexError", pages |-> writer,
                   error |-> <<>>, opened |-> k]
             ELSE MergeLoop(fs, page_files, k + 1,
                            Append(writer, FirstPage(fs[page_path])))

\* Mutant of MergeWrite: the pages gathered so far are written even when the
\* loop was left by an exception.
MergeWriteAlways(fs, output_path, r) == WriteFile(fs, output_path, r.pages)

\* The end of merge_pages: the output is opened and written only after the
\* loop has ended normally.
MergeWrite(fs, output_path, r) ==
    IF r.status = "ok" THEN WriteFile(fs, output_path, r.pages) ELSE fs

merge_pages(fs, ds, output_path, page_files) ==
    IF page_files = <<>>
    THEN [status |-> "ValueError", ret |-> NoPath, error |-> <<>>,
          opened |-> 0, files |-> fs, dirs |-> ds]
    ELSE LET r == MergeLoop(fs, page_files, 1, <<>>)
         IN  [status |-> r.status,
              ret |-> IF r.status = "ok" THEN output_path ELSE NoPath,
              error |-> r.error, opened |-> r.opened,
              files |-> MergeWrite(fs, output_path, r),
              \* output_path.parent.mkdir precedes the loop
              dirs |-> ds \cup {output_path[1]}]

---------------------------------------------------------------------------
(* merge_pages.py: parse_range *)

RECURSIVE DigitRun(_)
\* The length of the longest prefix of decimal digits: what \d+ consumes.
DigitRun(s) ==
    IF s # <<>> /\ IsDigit(Head(s)) THEN 1 + DigitRun(Tail(s)) ELSE 0

\* Where "$" matches (no MULTILINE flag): at the end of the string, and just
\* before a newline that is the string's last character.
DollarMatches(rest) == rest = <<>> \/ rest = <<"\n">>

\* re.match(r'^(\d+)-(\d+)$', range_str), then int() of the two groups.
parse_range(range_str) ==
    LET n1 == DigitRun(range_str)
        after1 == SubSeq(range_str, n1 + 1, Len(range_str))
        after_dash == IF after1 = <<>> THEN <<>> ELSE Tail(after1)
        n2 == DigitRun(after_dash)
        after2 == SubSeq(after_dash, n2 + 1, Len(after_dash))
    IN  IF /\ n1 >= 1
           /\ after1 # <<>> /\ Head(after1) = "-"
           /\ n2 >= 1
           /\ DollarMatches(after2)
        THEN [status |-> "ok",
              ret |-> <<IntOf(SubSeq(range_str, 1, n1)),
                        IntOf(SubSeq(after_dash, 1, n2))>>]
        ELSE [status |-> "ValueError", ret |-> <<>>]

---------------------------------------------------------------------------
(* extract_first_pages.py *)

Min(a, b) == IF a <= b THEN a ELSE b

\* The output is named by the source's file name inside output_dir and is
\* opened for writing ('wb') while the source is still open for reading.
\* When output_dir is the source's own directory the two paths are the same
\* file, which the write replaces.
extract_first_pages(fs, ds, input_path, output_dir, num_pages) ==
    IF input_path \notin DOMAIN fs
    THEN [status |-> "FileNotFoundError", ret |-> NoPath, files |-> fs,
          dirs |-> ds]
    ELSE IF Lower(Suffix(input_path[2])) # PdfSuffix
    THEN [status |-> "ValueError", ret |-> NoPath, files |-> fs, dirs |-> ds]
    ELSE LET output_path == <<output_dir, input_path[2]>>
             reader == fs[input_path]
             pages_to_extract == Min(num_pages, Len(reader))
             writer == [i \in 1..pages_to_extract |-> PageAt(reader, i - 1)]
         IN  [status |-> "ok", ret |-> output_path,
              files |-> WriteFile(fs, output_path, writer),
              dirs |-> ds \cup {output_dir}]

---------------------------------------------------------------------------
(* The documents and directories of the model *)

StemA == <<"a">>
\* A stem that is itself a glob pattern: the class [a] matches the letter a.
StemB == <<"[", "a", "]">>

DocName(stem) == stem \o PdfSuffix

\* A source document of n pages whose pages are its own.
SourceDoc(origin, n) == [i \in 1..n |-> <<origin, i>>]

DocsDir == "docs"
PagesDir == "pages"

PathA == <<DocsDir, DocName(StemA)>>
PathB == <<DocsDir, DocName(StemB)>>
\* A file without the .pdf extension.
PathPlain == <<DocsDir, StemA>>

InputPaths == {PathA, PathB, PathPlain}

\* Each source document is absent (-1) or holds 0..MaxPages pages.
InitFiles(na, nb) ==
    LET present == {PathPlain} \cup (IF na >= 0 THEN {PathA} ELSE {})
                               \cup (IF nb >= 0 THEN {PathB} ELSE {})
    IN  [p \in present |->
            IF p = PathA THEN SourceDoc("a", na)
            ELSE IF p = PathB THEN SourceDoc("b", nb)
            ELSE SourceDoc("plain", 1)]

Init ==
    /\ \E na \in -1..MaxPages, nb \in -1..MaxPages : files = InitFiles(na, nb)
    /\ dirs = {DocsDir}
    /\ call = [op |-> "none"]

---------------------------------------------------------------------------
(* Actions *)

\* The split command: main() calling split_pdf.
SplitMain ==
    \E input_path \in InputPaths :
        LET r == split_pdf(files, dirs, input_path, PagesDir)
        IN  /\ files' = r.files
            /\ dirs' = r.dirs
            /\ call' = [op |-> "split", input |-> input_path,
                        output_dir |-> PagesDir, status |-> r.status,
                        ret |-> r.ret, exit |-> SplitExit(r)]

\* A call of get_pages_from_dir; it only reads the file system.
GetPagesFromDir ==
    \E pages_dir \in {PagesDir}, start \in 0..MaxOrd, end \in 0..MaxOrd,
       stem_pattern \in {NoStem, StemA, StemB} :
        \E r \in get_pages_from_dir(files, dirs, pages_dir, start, end,
                                    stem_pattern) :
            /\ call' = [op |-> "resolve", pages_dir |-> pages_dir,
                        start |-> start, end |-> end,
                        stem_pattern |-> stem_pattern, status |-> r.status,
                        ret |-> r.ret, error |-> r.error]
            /\ UNCHANGED <<files, dirs>>

Next == SplitMain \/ GetPagesFromDir

Spec == Init /\ [][Next]_vars

OutDir == "out"
OutPath == <<OutDir, <<"m">> \o PdfSuffix>>

\* The paths a merge is given: the page files of stem a, present or not,
\* the source document itself (a file of several, or of no, pages), and the
\* output of an earlier merge (the output path is then one of the inputs).
MergeInputs ==
    {<<PagesDir, PageFileName(StemA, i)>> : i \in 1..MaxPages}
        \cup {PathA, OutPath}

PageLists == UNION {[1..n -> MergeInputs] : n \in 0..MaxPages}

\* A call of merge_pages.
MergePages ==
    \E page_files \in PageLists :
        LET r == merge_pages(files, dirs, OutPath, page_files)
        IN  /\ files' = r.files
            /\ dirs' = r.dirs
            /\ call' = [op |-> "merge", output |-> OutPath,
                        page_files |-> page_files, status |-> r.status,
                        ret |-> r.ret, error |-> r.error,
                        opened |-> r.opened]

\* A call of extract_first_pages.
ExtractFirstPages ==
    \E input_path \in InputPaths, output_dir \in {DocsDir, PagesDir},
       num_pages \in 0..MaxOrd :
        LET r == extract_first_pages(files, dirs, input_path, output_dir,
                                     num_pages)
        IN  /\ files' = r.files
            /\ dirs' = r.dirs
            /\ call' = [op |-> "extract", input |-> input_path,
                        output_dir |-> output_dir, num_pages |-> num_pages,
                        status |-> r.status, ret |-> r.ret]

RangeAlphabet == {"0", "1", "-", " ", "\n"}

RangeStrings == UNION {[1..n -> RangeAlphabet] : n \in 0..MaxLen}

\* parse_range applied to the string the state holds.
ParseRange ==
    /\ call.op = "pending"
    /\ LET r == parse_range(call.range_str)
       IN  call' = [op |-> "parse", range_str |-> call.range_str,
                    status |-> r.status, ret |-> r.ret]
    /\ UNCHANGED <<files, dirs>>

\* Splitting and merging the pages of one document.
InitMerge ==
    /\ \E na \in -1..MaxPages : files = InitFiles(na, -1)
    /\ dirs = {DocsDir}
    /\ call = [op |-> "none"]

NextMerge == SplitMain \/ MergePages

SpecMerge == InitMerge /\ [][NextMerge]_vars

NextExtract == ExtractFirstPages

SpecExtract == Init /\ [][NextExtract]_vars

\* parse_range is a pure function: the initial state draws its argument.
InitParse ==
    /\ files = InitFiles(-1, -1)
    /\ dirs = {DocsDir}
    /\ \E s \in RangeStrings : call = [op |-> "pending", range_str |-> s]

NextParse == ParseRange

SpecParse == InitParse /\ [][NextParse]_vars

---------------------------------------------------------------------------
(* Range resolution and splitting: the properties checked under Spec *)

\* The pattern the resolver is to use for an ordinal: the given stem, or a
\* wildcard stem when none is given.
ExpectedPattern(stem, ordinal) ==
    (IF stem = NoStem THEN <<"*">> ELSE stem)
        \o PageInfix \o Format04d(ordinal) \o PdfSuffix

IsResolve == call.op = "resolve"

\* C1: whenever get_pages_from_dir returns normally on an existing directory,
\* the result holds exactly max(0, end - start + 1) paths, the k-th being an
\* existing file of the directory that matches the pattern of ordinal
\* start + k - 1; a range with start > end returns the empty list, no error.
C1_ResolveRange ==
    (IsResolve /\ call.pages_dir \in dirs) =>
        /\ call.status = "ok" =>
            LET n == IF call.end >= call.start
                     THEN call.end - call.start + 1 ELSE 0
            IN  /\ Len(call.ret) = n
                /\ \A k \in 1..n :
                    /\ call.ret[k][1] = call.pages_dir
                    /\ call.ret[k] \in DOMAIN files
                    /\ GlobMatch(ExpectedPattern(call.stem_pattern,
                                                 call.start + k - 1),
                                 call.ret[k][2])
        /\ call.start > call.end => (call.status = "ok" /\ call.ret = <<>>)

\* A normal return over a range of at least two ordinals, with a stem filter.
C1_Witness ==
    /\ IsResolve /\ call.status = "ok"
    /\ call.stem_pattern = StemA
    /\ call.start >= 1 /\ call.end > call.start
    /\ Len(call.ret) = call.end - call.start + 1

\* The ordinals of the requested range that no file of the directory matches.
MissingOrdinals ==
    {o \in call.start..call.end :
        \A n \in Entries(files, call.pages_dir) :
            ~GlobMatch(ExpectedPattern(call.stem_pattern, o), n)}

\* C2: get_pages_from_dir raises FileNotFoundError, returning no list, exactly
\* when the directory does not exist or some ordinal of the range has no
\* match; the directory is checked first (also for start > end), otherwise
\* the error names the smallest missing ordinal and its pattern.
C2_ResolveAllOrNothing ==
    IsResolve =>
        /\ call.status \in {"ok", "FileNotFoundError"}
        /\ (call.status = "FileNotFoundError")
              <=> (call.pages_dir \notin dirs \/ MissingOrdinals # {})
        /\ call.status = "FileNotFoundError" => call.ret = <<>>
        /\ call.pages_dir \notin dirs => call.error = <<"dir", call.pages_dir>>
        /\ (call.pages_dir \in dirs /\ MissingOrdinals # {}) =>
              LET o == Minimum(MissingOrdinals)
              IN  call.error
                    = <<"page", o, ExpectedPattern(call.stem_pattern, o)>>

\* A failure on an ordinal that is not the first of its range: the ordinals
\* before it all matched, and still no list is returned.
C2_Witness ==
    /\ IsResolve /\ call.status = "FileNotFoundError"
    /\ call.pages_dir \in dirs
    /\ call.start >= 1 /\ call.start < call.end
    /\ MissingOrdinals # {}
    /\ Minimum(MissingOrdinals) > call.start

RECURSIVE LexLess(_, _)
\* a < b for Python strings: by code point, a proper prefix first.
LexLess(a, b) ==
    IF b = <<>> THEN FALSE
    ELSE IF a = <<>> THEN TRUE
    ELSE IF Head(a) = Head(b) THEN LexLess(Tail(a), Tail(b))
    ELSE CodePoint(Head(a)) < CodePoint(Head(b))

LexFirst(S) == CHOOSE m \in S : \A n \in S : m = n \/ LexLess(m, n)

SameResolveArgs(c, d) ==
    /\ c.pages_dir = d.pages_dir /\ c.start = d.start /\ c.end = d.end
    /\ c.stem_pattern = d.stem_pattern

\* C3: without a stem filter, when the wildcard pattern matches several files
\* of an ordinal the resolver takes the lexicographically first one, so two
\* calls over the same directory entries and range return the same list
\* whatever the enumeration order.
C3_DeterministicTieBreak ==
    [][ (call'.op = "resolve" /\ call'.stem_pattern = NoStem
            /\ call'.status = "ok") =>
          /\ \A k \in 1..Len(call'.ret) :
                call'.ret[k][2]
                  = LexFirst(Glob(files', call'.pages_dir,
                                  ExpectedPattern(NoStem, call'.start + k - 1)))
          /\ (call.op = "resolve" /\ SameResolveArgs(call, call')
                 /\ files' = files /\ dirs' = dirs) =>
                (call.status = call'.status /\ call.ret = call'.ret)
      ]_vars

\* C4: split_pdf returns exactly P names, <stem>-page-<i, 4 digits>.pdf for
\* i = 1..P in order, and resolving [1, P] in that directory with the
\* document's stem returns the same list, also beside pages of other stems.
C4_SplitThenResolve ==
    [][ /\ (call'.op = "split" /\ call'.status = "ok") =>
            call'.ret = [i \in 1..Len(files[call'.input]) |->
                           <<call'.output_dir,
                             Stem(call'.input[2]) \o PageInfix
                                \o Format04d(i) \o PdfSuffix>>]
        /\ (call.op = "split" /\ call.status = "ok"
               /\ call'.op = "resolve"
               /\ call'.pages_dir = call.output_dir
               /\ call'.stem_pattern = Stem(call.input[2])
               /\ call'.start = 1 /\ call'.end = Len(call.ret)) =>
            (call'.status = "ok" /\ call'.ret = call.ret)
      ]_vars

\* C9: splitting a readable document of 0 pages is no error: split_pdf
\* returns the empty list with the target directory created, and the split
\* command ends with exit status 0.
C9_EmptySplitSucceeds ==
    (call.op = "split" /\ call.input \in DOMAIN files
        /\ Lower(Suffix(call.input[2])) = PdfSuffix
        /\ Len(files[call.input]) = 0) =>
        /\ call.status = "ok" /\ call.ret = <<>>
        /\ call.output_dir \in dirs
        /\ call.exit = 0

---------------------------------------------------------------------------
(* Merging: the properties checked under SpecMerge *)

\* The list split_pdf returns for the document at input_path of n pages.
SplitNames(input_path, output_dir, n) ==
    [i \in 1..n |-> <<output_dir, PageFileName(Stem(input_path[2]), i)>>]

\* A step that merges the list the preceding split returned.
MergesLastSplit ==
    /\ call.op = "split" /\ call.status = "ok"
    /\ call'.op = "merge" /\ call'.page_files = call.ret

\* C5 as stated: for every document D of P pages, merge(split(D)) yields a
\* document of P pages whose page i is page i of D.
C5_RoundTripAnyP ==
    [][ MergesLastSplit =>
          (call'.status = "ok" /\ files'[call'.output] = files[call.input])
      ]_vars

\* C5 amended: for every document D of P >= 1 pages, merge(split(D)) yields
\* a document of P pages whose page i is page i of D.
C5_RoundTrip ==
    [][ (MergesLastSplit /\ Len(files[call.input]) >= 1) =>
          (call'.status = "ok" /\ files'[call'.output] = files[call.input])
      ]_vars

\* A merge of all the page files of a document of at least two pages.
C5_Witness ==
    /\ call.op = "merge" /\ call.status = "ok"
    /\ PathA \in DOMAIN files /\ Len(files[PathA]) >= 2
    /\ call.page_files = SplitNames(PathA, PagesDir, Len(files[PathA]))
    /\ files[call.output] = files[PathA]

\* Every input of the list exists and holds at least one page (fs: the file
\* system the merge reads).
AllPageFiles(fs, page_files) ==
    \A k \in 1..Len(page_files) :
        page_files[k] \in DOMAIN fs /\ Len(fs[page_files[k]]) >= 1

\* C6: for every non-empty list of existing page files (a file of at least
\* one page; repeats allowed), merge_pages writes one output of exactly
\* len(list) pages, page k being the first page of the k-th input as it was
\* when the merge began; an input of several pages gives only its first.
C6_MergeConcatenates ==
    [][ (call'.op = "merge" /\ call'.page_files # <<>>
            /\ AllPageFiles(files, call'.page_files)) =>
          /\ call'.status = "ok" /\ call'.ret = call'.output
          /\ call'.output \in DOMAIN files'
          /\ files'[call'.output]
               = [k \in 1..Len(call'.page_files) |->
                     files[call'.page_files[k]][1]]
          /\ \A q \in DOMAIN files' \ {call'.output} :
                q \in DOMAIN files /\ files'[q] = files[q]
      ]_vars

\* A merge whose list repeats an input that holds several pages.
C6_Witness ==
    /\ call.op = "merge" /\ call.status = "ok"
    /\ Len(call.page_files) >= 2
    /\ call.page_files[1] = PathA /\ call.page_files[2] = PathA
    /\ Len(files[PathA]) >= 2
    /\ Len(files[call.output]) = Len(call.page_files)

\* The positions of the inputs that do not exist.
MissingInputs(fs, page_files) ==
    {k \in 1..Len(page_files) : page_files[k] \notin DOMAIN fs}

\* C7: merge_pages raises ValueError on the empty list and, when an input
\* does not exist (the existing inputs before it being page files),
\* FileNotFoundError naming the first missing path, no later input being
\* opened; either way no output document is created or overwritten.
C7_MergeFailsClean ==
    [][ call'.op = "merge" =>
          LET page_files == call'.page_files
              missing == MissingInputs(files, page_files)
          IN  /\ page_files = <<>> => call'.status = "ValueError"
              /\ (missing # {}
                    /\ AllPageFiles(files,
                           SubSeq(page_files, 1, Minimum(missing) - 1))) =>
                    /\ call'.status = "FileNotFoundError"
                    /\ call'.error
                         = <<"file", page_files[Minimum(missing)]>>
                    /\ call'.opened = Minimum(missing) - 1
              /\ call'.status \in {"ValueError", "FileNotFoundError"} =>
                    (files' = files /\ call'.ret = NoPath)
      ]_vars

\* A merge that fails on a missing input after it read an existing one, with
\* the output of an earlier merge still in place.
C7_Witness ==
    /\ call.op = "merge" /\ call.status = "FileNotFoundError"
    /\ Len(call.page_files) >= 2
    /\ call.page_files[1] \in DOMAIN files
    /\ call.page_files[2] \notin DOMAIN files
    /\ call.opened = 1
    /\ call.output \in DOMAIN files

---------------------------------------------------------------------------
(* parse_range: the property checked under SpecParse *)

\* The position of the hyphen of a string made of two non-empty runs of
\* decimal digits joined by one hyphen; the empty set for any other string.
HyphenOfToken(s) ==
    {h \in 2..(Len(s) - 1) :
        /\ s[h] = "-"
        /\ \A i \in (1..Len(s)) \ {h} : IsDigit(s[i])}

\* C8: parse_range returns the two integers of the token when the string is
\* exactly two non-negative decimal integers joined by a single hyphen, and
\* raises ValueError for every other string, a trailing newline included.
C8_ParseRangeExact ==
    call.op = "parse" =>
        LET s == call.range_str
            hyphen == HyphenOfToken(s)
        IN  /\ (call.status = "ok") <=> (hyphen # {})
            /\ call.status # "ok" => call.status = "ValueError"
            /\ hyphen # {} =>
                  LET h == Minimum(hyphen)
                  IN  call.ret = <<IntOf(SubSeq(s, 1, h - 1)),
                                   IntOf(SubSeq(s, h + 1, Len(s)))>>

---------------------------------------------------------------------------
(* Extraction: the property checked under SpecExtract *)

\* C10: extract_first_pages never modifies its source: after the call the
\* source path holds the original document, whatever the target directory,
\* and the new document holds its min(num_pages, total) leading pages.
C10_SourceUnchanged ==
    [][ (call'.op = "extract" /\ call'.status = "ok") =>
          LET source == files[call'.input]
          IN  /\ files'[call'.input] = source
              /\ files'[call'.ret]
                   = SubSeq(source, 1, Min(call'.num_pages, Len(source)))
      ]_vars

=============================================================================
